---- MODULE Spec2Model ----
(***************************************************************************)
(* A model of evm/vm.py: the Stack, the CodeStream and its jump-validity   *)
(* oracle, the GasMeter, and the message-call interpreter (apply_message,  *)
(* execute_vm, the frame's scope guard).                                   *)
(*                                                                         *)
(* Seven specifications share the module:                                  *)
(*   SpecStack  a single Stack driven by push / pop / swap / dup           *)
(*   SpecCode   a single CodeStream driven by is_valid_opcode              *)
(*   SpecStream a single CodeStream driven by all its operations           *)
(*   SpecMemory a State: Memory.extend / write and State.extend_memory     *)
(*   SpecGas    a GasMeter driven by consume_gas / return_gas / refund_gas *)
(*   Spec       the virtual machine: nested apply_message calls            *)
(*   SpecLoop   the interpreter loop with jumps, under fairness            *)
(* Each one pins the variables of the others.                              *)
(***************************************************************************)
EXTENDS Integers, Sequences, FiniteSets, TLC

VARIABLES
    values,     \* Stack.values of the stack under test
    pushes,     \* number of successful push / dup calls so far
    pops,       \* number of successful pop calls so far
    stackOp,    \* the last Stack call: its name, error and the values before it
    stream,     \* CodeStream.stream: [bytes, pos]
    codeOp,     \* the last CodeStream call and its result
    storage,    \* evm.storage: balances, code and storage slots per account
    message,    \* the top-level Message handed to apply_message
    frames,     \* the ExecutionEnvironments of the running call chain, outermost first
    outcome,    \* "start", "running", "returned", or the error that left the top call
    finished,   \* the apply_message calls that ended in the last step
    lastDispatch, \* the last opcode dispatch of execute_vm's loop
    lastExit,   \* the last run of the frame's scope guard (__exit__)
    state,      \* a State under test: [memory, gas_meter]
    stateOp     \* the last call on that State, its Memory or its GasMeter

stackVars == <<values, pushes, pops, stackOp>>
codeVars == <<stream, codeOp>>
vmVars == <<storage, message, frames, outcome, finished, lastDispatch, lastExit>>
stateVars == <<state, stateOp>>
vars == <<stackVars, codeVars, vmVars, stateVars>>

(***************************************************************************)
(* Bounds of the model.                                                    *)
(***************************************************************************)
MaxStackOps == 4
MaxCodeLen == 4

(***************************************************************************)
(* Program constants.                                                      *)
(***************************************************************************)
StackLimit == 1024
WordBytes == 32
PushWindow == 32

\* Opcode bytes (evm.opcodes). OP stands for any defined opcode that is not
\* a terminal one.
STOP == 0
OP == 1
JUMPDEST == 91
PUSH1 == 96
PUSH2 == 97
PUSH32 == 127
RETURN == 243
SUICIDE == 255

Min(a, b) == IF a < b THEN a ELSE b
Max(a, b) == IF a > b THEN a ELSE b

\* Python's sequence[idx]: the 1-based index it denotes, 0 for IndexError.
PyIndex(n, idx) ==
    IF idx < 0
    THEN (IF idx + n >= 0 THEN idx + n + 1 ELSE 0)
    ELSE (IF idx < n THEN idx + 1 ELSE 0)

\* Python's sequence[lo:hi] for 0 <= lo, 0 <= hi.
PySlice(s, lo, hi) == SubSeq(s, lo + 1, Min(hi, Len(s)))

(***************************************************************************)
(* Stack                                                                   *)
(***************************************************************************)
StackResult(vs, err, res) == [values |-> vs, error |-> err, result |-> res]

\* The mutant of push: the limit compared after the append instead of before.
push_late_limit(vs, value) ==
    IF Len(vs) > StackLimit
    THEN StackResult(vs, "FullStack", <<>>)
    ELSE IF Len(value) > WordBytes
    THEN StackResult(vs, "ValidationError", <<>>)
    ELSE StackResult(Append(vs, value), "none", <<>>)

push(vs, value) ==
    IF Len(vs) + 1 > StackLimit
    THEN StackResult(vs, "FullStack", <<>>)
    ELSE IF Len(value) > WordBytes
    THEN StackResult(vs, "ValidationError", <<>>)
    ELSE StackResult(Append(vs, value), "none", <<>>)

pop(vs) ==
    IF vs = <<>>
    THEN StackResult(vs, "InsufficientStack", <<>>)
    ELSE StackResult(SubSeq(vs, 1, Len(vs) - 1), "none", vs[Len(vs)])

swap(vs, position) ==
    LET idx == PyIndex(Len(vs), -1 * position - 1)
        top == PyIndex(Len(vs), -1)
    IN  IF idx = 0 \/ top = 0
        THEN StackResult(vs, "InsufficientStack", <<>>)
        ELSE StackResult([[vs EXCEPT ![top] = vs[idx]] EXCEPT ![idx] = vs[top]],
                         "none", <<>>)

dup(vs, position) ==
    LET idx == PyIndex(Len(vs), -1 * position)
    IN  IF idx = 0
        THEN StackResult(vs, "InsufficientStack", <<>>)
        ELSE push(vs, vs[idx])

(***************************************************************************)
(* CodeStream                                                              *)
(***************************************************************************)
CodeStream(code_bytes) == [bytes |-> code_bytes, pos |-> 0]

\* io.BytesIO.read(size), size >= 0: the bytes read and the stream after.
stream_read(st, size) ==
    LET got == PySlice(st.bytes, st.pos, st.pos + size)
    IN  [value |-> got, stream |-> [st EXCEPT !.pos = st.pos + Len(got)]]

\* The mutant of set_pc: the value is not clamped to the length.
set_pc_unclamped(st, value) == [st EXCEPT !.pos = value]

\* The pc setter for value >= 0: seek(min(value, len(self))).
set_pc(st, value) == [st EXCEPT !.pos = Min(value, Len(st.bytes))]

\* The pc setter for any value: io.BytesIO.seek refuses a negative position
\* with ValueError and leaves the stream where it was.
assign_pc(st, value) ==
    IF value < 0 THEN [stream |-> st, error |-> "ValueError"]
    ELSE [stream |-> set_pc(st, value), error |-> "none"]

\* next(): read(1), STOP when nothing is left.
stream_next(st) ==
    LET r == stream_read(st, 1)
    IN  [opcode |-> IF Len(r.value) = 1 THEN r.value[1] ELSE STOP,
         stream |-> r.stream]

\* peek(): next(), then pc is set back.
peek(st) ==
    LET r == stream_next(st)
    IN  [opcode |-> r.opcode, stream |-> set_pc(r.stream, st.pos)]

\* with self.seek(pc): read(size). The stream inside the block after the
\* read, the bytes read, and the stream after the finally clause; a
\* negative pc raises in the setter before the block is entered.
seek_scope(st, pc, size) ==
    LET entered == assign_pc(st, pc)
        body == stream_read(entered.stream, size)
    IN  IF entered.error # "none"
        THEN [value |-> <<>>, inside |-> st, stream |-> st, error |-> entered.error]
        ELSE [value |-> body.value, inside |-> body.stream,
              stream |-> set_pc(body.stream, st.pos), error |-> "none"]

\* The bytes is_valid_opcode scans: seek(max(0, position - 32)), then
\* read(min(position, 32)); the scoped seek restores pc afterwards.
scan_prefix(st, position) ==
    stream_read(set_pc(st, Max(0, position - PushWindow)),
                Min(position, PushWindow)).value

\* The mutant of covers_position: a PUSH whose last immediate byte is the
\* position is skipped (push_size < offset + 1 in place of <=  offset).
covers_position_short(opcode, offset) ==
    /\ opcode >= PUSH1
    /\ opcode <= PUSH32
    /\ ~(1 + opcode - PUSH1 <= offset + 1)

\* Lines 263-268: the scanned byte is a PUSH whose immediates reach position.
covers_position(opcode, offset) ==
    /\ opcode >= PUSH1
    /\ opcode <= PUSH32
    /\ ~(1 + opcode - PUSH1 <= offset)

RECURSIVE is_valid_opcode(_, _)
is_valid_opcode(st, position) ==
    LET prefix == scan_prefix(st, position)
        n == Len(prefix)
    IN  ~ \E offset \in 0..(n - 1) :
            /\ covers_position(prefix[n - offset], offset)
            /\ is_valid_opcode(st, position - 1 - offset)

(***************************************************************************)
(* GasMeter                                                                *)
(***************************************************************************)
RECURSIVE sum(_)
sum(amounts) ==
    IF amounts = <<>> THEN 0 ELSE amounts[1] + sum(Tail(amounts))

GasMeter(start_gas) ==
    [start_gas |-> start_gas, deductions |-> <<>>, returns |-> <<>>,
     refunds |-> <<>>]

\* The mutant of gas_used: returned gas is not counted as used.
gas_used_without_returns(meter) == sum(meter.deductions)

gas_used(meter) == sum(meter.deductions) + sum(meter.returns)
gas_refunded(meter) == sum(meter.refunds)
gas_remaining(meter) == meter.start_gas - gas_used(meter)
is_out_of_gas(meter) == gas_remaining(meter) < 0

\* validate_uint256: the amounts of the model stay far below 2^256, so the
\* only way to fail is to be negative.
is_uint256(amount) == amount >= 0

MeterResult(meter, err) == [meter |-> meter, error |-> err]

\* The mutant of consume_gas: the deduction is not recorded.
consume_gas_forgets(meter, amount) ==
    IF ~is_uint256(amount) THEN MeterResult(meter, "OutOfGas")
    ELSE IF is_out_of_gas(meter) THEN MeterResult(meter, "OutOfGas")
    ELSE MeterResult(meter, "none")

\* The mutant of consume_gas: no check that the meter is already out of gas.
consume_gas_unguarded(meter, amount) ==
    IF ~is_uint256(amount) THEN MeterResult(meter, "OutOfGas")
    ELSE MeterResult([meter EXCEPT !.deductions = Append(@, amount)], "none")

consume_gas(meter, amount) ==
    IF ~is_uint256(amount) THEN MeterResult(meter, "OutOfGas")
    ELSE IF is_out_of_gas(meter) THEN MeterResult(meter, "OutOfGas")
    ELSE MeterResult([meter EXCEPT !.deductions = Append(@, amount)], "none")

\* return_gas: a ValidationError of validate_uint256 is not caught.
return_gas(meter, amount) ==
    IF ~is_uint256(amount) THEN MeterResult(meter, "ValidationError")
    ELSE MeterResult([meter EXCEPT !.returns = Append(@, amount)], "none")

refund_gas(meter, amount) ==
    IF ~is_uint256(amount) THEN MeterResult(meter, "ValidationError")
    ELSE MeterResult([meter EXCEPT !.refunds = Append(@, amount)], "none")

\* The mutant of charge_opcode: the check after the deduction is left out.
charge_opcode_unchecked(meter, gas_cost) == consume_gas(meter, gas_cost)

\* The mutant of charge_opcode: the wrapper charges nothing.
charge_opcode_free(meter, gas_cost) == MeterResult(meter, "none")

\* The function wrap_opcode_fn returns, up to the call of opcode_fn: the
\* opcode's logic runs only when the error is "none".
charge_opcode(meter, gas_cost) ==
    LET c == consume_gas(meter, gas_cost)
    IN  IF c.error # "none" THEN c
        ELSE IF is_out_of_gas(c.meter) THEN MeterResult(c.meter, "OutOfGas")
        ELSE c

(***************************************************************************)
(* Memory and State.extend_memory                                          *)
(***************************************************************************)
\* evm.utils.numeric.ceil32
ceil32(n) == IF n % 32 = 0 THEN n ELSE n + 32 - (n % 32)

\* evm.defaults.gas_costs.memory_gas_cost: linear plus quadratic in words.
memory_gas_cost(size_in_bytes) ==
    LET size_in_words == ceil32(size_in_bytes) \div 32
    IN  size_in_words * 3 + (size_in_words * size_in_words) \div 512

\* The mutant of memory_extend: the new size is not rounded up to a word.
memory_extend_exact(bytes, start_position, size) ==
    IF size = 0 THEN bytes
    ELSE LET new_size == start_position + size
         IN  IF new_size <= Len(bytes) THEN bytes
             ELSE bytes \o [i \in 1..(new_size - Len(bytes)) |-> 0]

memory_extend(bytes, start_position, size) ==
    IF size = 0 THEN bytes
    ELSE LET new_size == ceil32(start_position + size)
         IN  IF new_size <= Len(bytes) THEN bytes
             ELSE bytes \o [i \in 1..(new_size - Len(bytes)) |-> 0]

\* Memory.write: the validations of lines 84-88, then the three slices.
memory_write(bytes, start_position, size, value) ==
    IF \/ ~is_uint256(start_position)
       \/ ~is_uint256(size)
       \/ Len(value) # size
       \/ start_position + size > Len(bytes)
    THEN [bytes |-> bytes, error |-> "ValidationError"]
    ELSE [bytes |-> PySlice(bytes, 0, start_position) \o value
                        \o PySlice(bytes, start_position + size, Len(bytes)),
          error |-> "none"]

\* The mutant of extend_memory: the memory grows before the meter is checked.
extend_memory_grows_first(memory, meter, start_position, size) ==
    LET before_cost == memory_gas_cost(ceil32(Len(memory)))
        after_cost == memory_gas_cost(ceil32(start_position + size))
        c == IF before_cost < after_cost
             THEN consume_gas(meter, after_cost - before_cost)
             ELSE MeterResult(meter, "none")
        grown == memory_extend(memory, start_position, size)
    IN  IF size = 0 THEN [memory |-> memory, meter |-> meter, error |-> "none"]
        ELSE IF c.error # "none"
        THEN [memory |-> grown, meter |-> c.meter, error |-> c.error]
        ELSE IF is_out_of_gas(c.meter)
        THEN [memory |-> grown, meter |-> c.meter, error |-> "OutOfGas"]
        ELSE [memory |-> grown, meter |-> c.meter, error |-> "none"]

\* State.extend_memory on the frame's [memory, gas_meter].
extend_memory(memory, meter, start_position, size) ==
    LET before_cost == memory_gas_cost(ceil32(Len(memory)))
        after_cost == memory_gas_cost(ceil32(start_position + size))
        c == IF before_cost < after_cost
             THEN consume_gas(meter, after_cost - before_cost)
             ELSE MeterResult(meter, "none")
    IN  IF size = 0 THEN [memory |-> memory, meter |-> meter, error |-> "none"]
        ELSE IF c.error # "none"
        THEN [memory |-> memory, meter |-> c.meter, error |-> c.error]
        ELSE IF is_out_of_gas(c.meter)
        THEN [memory |-> memory, meter |-> c.meter, error |-> "OutOfGas"]
        ELSE [memory |-> memory_extend(memory, start_position, size),
              meter |-> c.meter, error |-> "none"]

(***************************************************************************)
(* Errors                                                                  *)
(***************************************************************************)
\* evm.exceptions: the VMError family imported by vm.py, and the errors the
\* opcode logic raises.
VMErrors ==
    {"OutOfGas", "InsufficientStack", "FullStack", "StackDepthLimit",
     "InvalidOpcode", "InvalidJumpDestination"}
\* Exceptions that are no VMError: the unbound name InsufficientFunds
\* (NameError), ValueError of the deletion invariant, ValidationError.
is_VMError(err) == err \in VMErrors

(***************************************************************************)
(* Storage (the world state behind evm.storage)                            *)
(***************************************************************************)
Accounts == {"A", "B"}

get_balance(st, account) == st.balance[account]
set_balance(st, account, balance) == [st EXCEPT !.balance[account] = balance]
get_code(st, account) == st.code[account]
delete_code(st, account) == [st EXCEPT !.code[account] = <<>>]
delete_storage(st, account) == [st EXCEPT !.slots[account] = 0]
set_storage(st, account, value) == [st EXCEPT !.slots[account] = value]
storage_snapshot(st) == st
storage_revert(st, snapshot) == snapshot

(***************************************************************************)
(* Message and ExecutionEnvironment                                        *)
(***************************************************************************)
DepthLimit == 1024

Message(gas, gas_price, origin, account, sender, value, data, depth) ==
    [gas |-> gas, gas_price |-> gas_price, origin |-> origin,
     account |-> account, sender |-> sender, value |-> value, data |-> data,
     depth |-> depth]

\* ExecutionEnvironment.__init__ with State.__init__; snapshot is the local
\* of the apply_message call that runs the frame, opcode the loop variable
\* of execute_vm, and at the place the call has reached:
\*   "loop" before the next fetch, "call" inside a child's apply_message,
\*   "exit" leaving the loop, "returned" after execute_vm has returned.
ExecutionEnvironment(st, msg, snapshot) ==
    [message |-> msg,
     memory |-> <<>>,
     stack |-> <<>>,
     code |-> CodeStream(get_code(st, msg.account)),
     gas_meter |-> GasMeter(msg.gas),
     sub_environments |-> <<>>,
     accounts_to_delete |-> <<>>,
     error |-> "none",
     snapshot |-> snapshot,
     opcode |-> STOP,
     at |-> "loop"]

\* What a parent keeps of a child environment in sub_environments.
SubEnvironment(env) ==
    [account |-> env.message.account, depth |-> env.message.depth,
     error |-> env.error]

create_message(env, gas, to, value, data) ==
    Message(gas, env.message.gas_price, env.message.origin, to,
            env.message.account, value, data, env.message.depth + 1)

\* accounts_to_delete is a dict; the model keeps its items in insertion
\* order as a sequence of <<account, beneficiary>>.
registered(env, account) ==
    \E i \in 1..Len(env.accounts_to_delete) : env.accounts_to_delete[i][1] = account

\* The mutant of register_account_for_deletion: no test of the invariant.
register_account_unchecked(env, beneficiary) ==
    [env |-> [env EXCEPT !.accounts_to_delete =
                    Append(@, <<env.message.account, beneficiary>>)],
     error |-> "none"]

register_account_for_deletion(env, beneficiary) ==
    IF registered(env, env.message.account)
    THEN [env |-> env, error |-> "ValueError"]
    ELSE [env |-> [env EXCEPT !.accounts_to_delete =
                        Append(@, <<env.message.account, beneficiary>>)],
          error |-> "none"]

\* The mutant of delete_account: the beneficiary's balance is read before
\* the account's balance is set to 0.
delete_account_stale_read(st, account, beneficiary) ==
    LET s1 == delete_code(delete_storage(st, account), account)
        account_balance == get_balance(s1, account)
        beneficiary_balance == get_balance(s1, beneficiary)
        s2 == set_balance(s1, account, 0)
    IN  set_balance(s2, beneficiary, beneficiary_balance + account_balance)

\* The body of the loop of __exit__, lines 556-565.
delete_account(st, account, beneficiary) ==
    LET s1 == delete_code(delete_storage(st, account), account)
        account_balance == get_balance(s1, account)
        s2 == set_balance(s1, account, 0)
        beneficiary_balance == get_balance(s2, beneficiary)
    IN  set_balance(s2, beneficiary, beneficiary_balance + account_balance)

RECURSIVE delete_accounts(_, _)
delete_accounts(st, items) ==
    IF items = <<>> THEN st
    ELSE delete_accounts(delete_account(st, items[1][1], items[1][2]), Tail(items))

\* __exit__ as execute_vm reaches it. The loop catches every VMError itself
\* (lines 621-625), so the with block is left with exc_type None, or with
\* an exception that is no VMError; exc is "none" or that exception.
scope_exit(st, env, exc) ==
    IF exc # "none" /\ is_VMError(exc) THEN st
    ELSE IF exc = "none" THEN delete_accounts(st, env.accounts_to_delete)
    ELSE st

(***************************************************************************)
(* apply_message                                                           *)
(***************************************************************************)
BREAK_OPCODES == {RETURN, STOP, SUICIDE}

\* The mutant of depth_limit_reached: > in place of >=.
depth_limit_off_by_one(msg) == msg.depth > DepthLimit

\* Line 578.
depth_limit_reached(msg) == msg.depth >= DepthLimit

\* Lines 588-594: both balances are read before either is written.
transfer_value(st, msg) ==
    LET sender_balance == get_balance(st, msg.sender)
        account_balance == get_balance(st, msg.account)
    IN  set_balance(set_balance(st, msg.sender, sender_balance - msg.value),
                    msg.account, account_balance + msg.value)

\* apply_message up to the call of execute_vm (lines 576-596). The name
\* InsufficientFunds is bound nowhere in vm.py, so line 584 raises NameError.
apply_message_enter(st, msg) ==
    LET snapshot == storage_snapshot(st)
    IN  IF depth_limit_reached(msg)
        THEN [error |-> "StackDepthLimit", storage |-> st]
        ELSE IF msg.value # 0 /\ get_balance(st, msg.sender) < msg.value
        THEN [error |-> "NameError", storage |-> st]
        ELSE LET st2 == IF msg.value # 0 THEN transfer_value(st, msg) ELSE st
             IN  [error |-> "none", storage |-> st2,
                  env |-> ExecutionEnvironment(st2, msg, snapshot)]

\* Line 599.
must_revert(env) == env.error # "none"

\* apply_message after execute_vm has returned (lines 599-601).
apply_message_exit(st, env) ==
    IF must_revert(env) THEN storage_revert(st, env.snapshot) ELSE st

(***************************************************************************)
(* Values of the drivers, and the resting values of the variables a        *)
(* specification does not use.                                             *)
(***************************************************************************)
\* Words pushed by the driver; LongWord is one byte too long to be a word.
Word1 == <<1>>
Word2 == <<2>>
LongWord == [i \in 1..(WordBytes + 1) |-> 0]
PushedValues == {Word1, Word2, LongWord}
\* DUPn / SWAPn positions exercised (1 <= n <= 16).
Positions == {1, 2, 16}
\* A stack two pushes short of the limit, as StackLimit - 2 pushes leave it.
NearFullStack == [i \in 1..(StackLimit - 2) |-> Word1]

NoStackOp == [op |-> "none", error |-> "none", before |-> <<>>, n |-> 0]
NoCodeOp == [op |-> "none", position |-> 0, result |-> TRUE, pc |-> 0]
IdleStream == CodeStream(<<>>)

StackIdle ==
    /\ values = <<>>
    /\ pushes = 0
    /\ pops = 0
    /\ stackOp = NoStackOp

CodeIdle ==
    /\ stream = IdleStream
    /\ codeOp = NoCodeOp

\* State.__init__: an empty Memory and a GasMeter of start_gas.
State(start_gas) == [memory |-> <<>>, gas_meter |-> GasMeter(start_gas)]
NoStateOp ==
    [op |-> "none", error |-> "none", before |-> State(0), start |-> 0,
     size |-> 0, amount |-> 0, n |-> 0, crossings |-> 0, consumed |-> 0,
     returned |-> 0, refunded |-> 0]

StateIdle ==
    /\ state = State(0)
    /\ stateOp = NoStateOp

(***************************************************************************)
(* Opcode tables (evm.opcodes, OPCODE_GAS_COSTS, validate_opcode)          *)
(***************************************************************************)
UNDEFINED == 12
DefinedOpcodes == {STOP, OP, JUMPDEST, RETURN, SUICIDE} \cup (PUSH1..PUSH32)
validate_opcode(opcode) == opcode \in DefinedOpcodes
opcode_gas_cost(opcode) ==
    CASE opcode \in {OP, JUMPDEST} -> 1
      [] opcode \in PUSH1..PUSH32 -> 3
      [] OTHER -> 0

\* get_opcode_fn up to the call of the opcode's logic: the error that keeps
\* the logic from running ("none" when it runs) and the meter afterwards.
get_opcode_fn(meter, opcode) ==
    IF ~validate_opcode(opcode)
    THEN MeterResult(meter, "InvalidOpcode")
    ELSE charge_opcode(meter, opcode_gas_cost(opcode))

(***************************************************************************)
(* Opcode logic (OPCODE_LOGIC_FUNCTIONS): a logic function gets the frame  *)
(* and acts through its API. STOP and RETURN touch nothing the model       *)
(* keeps, SUICIDE registers the account for deletion, and the logic of OP  *)
(* may make any one call of the API.                                       *)
(***************************************************************************)
LogicCalls ==
    {"nop", "push", "pop", "sstore", "consume_gas", "extend_memory",
     "register_account_for_deletion", "raise", "apply_message", "jump"}
logic_calls(opcode) ==
    CASE opcode = OP -> LogicCalls
      [] opcode = SUICIDE -> {"register_account_for_deletion"}
      [] OTHER -> {"nop"}

\* The amounts an opcode's logic charges with a direct consume_gas.
LogicFees == {2}
\* The destinations a jump assigns to pc: the start of the code.
JumpTargets == {0}
Effect(kind, arg) == [kind |-> kind, arg |-> arg]

\* The logic's result: the frame, the storage and the error it raised.
LogicResult(env, st, err) == [env |-> env, storage |-> st, error |-> err]

run_logic(effect, env, st) ==
    CASE effect.kind = "nop" -> LogicResult(env, st, "none")
      [] effect.kind = "push" ->
            LET r == push(env.stack, effect.arg)
            IN  LogicResult([env EXCEPT !.stack = r.values], st, r.error)
      [] effect.kind = "pop" ->
            LET r == pop(env.stack)
            IN  LogicResult([env EXCEPT !.stack = r.values], st, r.error)
      [] effect.kind = "sstore" ->
            LogicResult(env, set_storage(st, env.message.account, effect.arg), "none")
      [] effect.kind = "consume_gas" ->
            LET r == consume_gas(env.gas_meter, effect.arg)
            IN  LogicResult([env EXCEPT !.gas_meter = r.meter], st, r.error)
      [] effect.kind = "extend_memory" ->
            LET r == extend_memory(env.memory, env.gas_meter, 0, effect.arg)
            IN  LogicResult([env EXCEPT !.memory = r.memory, !.gas_meter = r.meter],
                            st, r.error)
      [] effect.kind = "register_account_for_deletion" ->
            LET r == register_account_for_deletion(env, effect.arg)
            IN  LogicResult(r.env, st, r.error)
      [] effect.kind = "raise" -> LogicResult(env, st, effect.arg)
      [] effect.kind = "jump" ->
            LogicResult([env EXCEPT !.code = set_pc(env.code, effect.arg)], st, "none")

(***************************************************************************)
(* Spec: the virtual machine.                                              *)
(***************************************************************************)
\* The worlds a run starts from: the code and the balance of each account.
Codes0 ==
    {[a \in Accounts |-> IF a = "A" THEN <<OP, OP>> ELSE <<UNDEFINED>>],
     [a \in Accounts |-> IF a = "A" THEN <<OP, OP>> ELSE <<SUICIDE>>]}
Balances0 ==
    {[a \in Accounts |-> 1], [a \in Accounts |-> IF a = "A" THEN 0 ELSE 1]}
\* The gas of a top-level message, and the gas a CALL hands to the child.
StartGas == {1, 4}
ChildGas == {2}
\* The call chain is followed where it meets the depth limit: the top-level
\* message is two calls, one call or no call away from it.
StartDepths == {DepthLimit - 2, DepthLimit - 1, DepthLimit}
\* The value of a top-level message, and of a child message.
StartValues == {0, 1, 2}
Values == {0, 1}

NoDispatch ==
    [depth |-> 0, opcode |-> STOP, valid |-> FALSE, gas_cost |-> 0,
     kind |-> "none", error |-> "none", n |-> 0,
     before |-> [gas |-> 0, stack |-> <<>>, memory |-> <<>>, storage |-> <<>>,
                 deletions |-> <<>>],
     after |-> [gas |-> 0, stack |-> <<>>, memory |-> <<>>, storage |-> <<>>,
                deletions |-> <<>>]]
NoExit ==
    [depth |-> 0, n |-> 0, error |-> "none", items |-> <<>>,
     before |-> <<>>, after |-> <<>>]
IdleStorage == [balance |-> <<>>, code |-> <<>>, slots |-> <<>>]
IdleMessage == Message(0, 0, "A", "A", "A", 0, <<>>, 0)

VMIdle ==
    /\ storage = IdleStorage
    /\ message = IdleMessage
    /\ frames = <<>>
    /\ outcome = "idle"
    /\ finished = {}
    /\ lastDispatch = NoDispatch
    /\ lastExit = NoExit

Top == frames[Len(frames)]
Running == outcome = "running" /\ frames # <<>>
WithTop(env) == [frames EXCEPT ![Len(frames)] = env]

\* An apply_message call that has ended: by returning env, or by raising.
CallRecord(msg, err, raised, env, before, after) ==
    [depth |-> msg.depth, account |-> msg.account, sender |-> msg.sender,
     value |-> msg.value, error |-> err, raised |-> raised, env |-> env,
     before |-> before, after |-> after]
NoEnv == <<>>

\* An exception that is no VMError leaves execute_vm and apply_message of
\* every frame of the chain: no scope guard commits, no call reverts.
Unwound(err, after) ==
    {CallRecord(frames[i].message, err, TRUE, NoEnv, frames[i].snapshot, after) :
        i \in 1..Len(frames)}

\* The fetch of the loop (CodeStream.next) with get_opcode_fn.
Fetched(env) ==
    LET r == stream_read(env.code, 1)
        opcode == IF Len(r.value) = 1 THEN r.value[1] ELSE STOP
    IN  [env EXCEPT !.code = r.stream, !.opcode = opcode]

View(env, st) ==
    [gas |-> gas_remaining(env.gas_meter), stack |-> env.stack,
     memory |-> env.memory, storage |-> st,
     deletions |-> env.accounts_to_delete]

DispatchRecord(env0, env1, st1, kind, err) ==
    [depth |-> env0.message.depth, opcode |-> env1.opcode,
     valid |-> validate_opcode(env1.opcode),
     gas_cost |-> opcode_gas_cost(env1.opcode),
     kind |-> kind, error |-> err, n |-> Len(frames),
     before |-> View(env0, storage), after |-> View(env1, st1)]

\* The mutant of AfterDispatch: a VMError is recorded but the loop goes on.
AfterDispatch_no_break(env, err) ==
    IF err # "none" THEN [env EXCEPT !.error = err]
    ELSE IF env.opcode \in BREAK_OPCODES THEN [env EXCEPT !.at = "exit"]
    ELSE env

\* The end of one turn of the loop, lines 621-628.
AfterDispatch(env, err) ==
    IF err # "none" THEN [env EXCEPT !.error = err, !.at = "exit"]
    ELSE IF env.opcode \in BREAK_OPCODES THEN [env EXCEPT !.at = "exit"]
    ELSE env

\* apply_message(evm, message) called from outside any frame.
ApplyMessage ==
    /\ outcome = "start"
    /\ LET r == apply_message_enter(storage, message)
       IN  /\ storage' = r.storage
           /\ IF r.error = "none"
              THEN /\ frames' = <<r.env>>
                   /\ outcome' = "running"
                   /\ finished' = {}
              ELSE /\ frames' = <<>>
                   /\ outcome' = r.error
                   /\ finished' = {CallRecord(message, r.error, TRUE, NoEnv,
                                              storage, r.storage)}
    /\ lastDispatch' = NoDispatch
    /\ lastExit' = NoExit
    /\ UNCHANGED <<message, stackVars, codeVars, stateVars>>

\* One turn of execute_vm's loop whose opcode logic makes the call effect.
Dispatch(effect) ==
    /\ Running
    /\ Top.at = "loop"
    /\ effect.kind \in logic_calls(Fetched(Top).opcode)
    /\ LET env1 == Fetched(Top)
           g == get_opcode_fn(env1.gas_meter, env1.opcode)
           env2 == [env1 EXCEPT !.gas_meter = g.meter]
           l == IF g.error = "none" THEN run_logic(effect, env2, storage)
                ELSE LogicResult(env2, storage, g.error)
           kind == IF g.error = "none" THEN effect.kind ELSE "none"
       IN  /\ storage' = l.storage
           /\ lastDispatch' = DispatchRecord(Top, l.env, l.storage, kind, l.error)
           /\ IF l.error = "none" \/ is_VMError(l.error)
              THEN /\ frames' = WithTop(AfterDispatch(l.env, l.error))
                   /\ outcome' = outcome
                   /\ finished' = {}
              ELSE /\ frames' = <<>>
                   /\ outcome' = l.error
                   /\ finished' = Unwound(l.error, l.storage)
    /\ lastExit' = NoExit
    /\ UNCHANGED <<message, stackVars, codeVars, stateVars>>

OpNop == Dispatch(Effect("nop", 0))
OpPush == Dispatch(Effect("push", Word1))
OpPop == Dispatch(Effect("pop", 0))
OpSStore == Dispatch(Effect("sstore", 1))
OpConsumeGas == \E amount \in LogicFees : Dispatch(Effect("consume_gas", amount))
OpExtendMemory == Dispatch(Effect("extend_memory", 32))
OpRegister ==
    \E beneficiary \in Accounts :
        Dispatch(Effect("register_account_for_deletion", beneficiary))
OpRaise == Dispatch(Effect("raise", "InvalidJumpDestination"))
\* A jump: the logic assigns environment.state.code.pc.
OpJump == \E target \in JumpTargets : Dispatch(Effect("jump", target))

\* One turn of the loop whose opcode logic applies a child message:
\* environment.apply_message(environment.create_message(gas, to, value, data)).
OpCall ==
    /\ Running
    /\ Top.at = "loop"
    /\ \E to \in Accounts, value \in Values, gas \in ChildGas :
        LET env1 == Fetched(Top)
            g == get_opcode_fn(env1.gas_meter, env1.opcode)
            env2 == [env1 EXCEPT !.gas_meter = g.meter]
            msg == create_message(env2, gas, to, value, <<>>)
            r == apply_message_enter(storage, msg)
        IN  /\ "apply_message" \in logic_calls(env1.opcode)
            /\ g.error = "none"
            /\ storage' = r.storage
            /\ lastDispatch' = DispatchRecord(Top, env2, r.storage, "apply_message", r.error)
            /\ IF r.error = "none"
               THEN /\ frames' = Append(WithTop([env2 EXCEPT !.at = "call"]), r.env)
                    /\ outcome' = outcome
                    /\ finished' = {}
               ELSE IF is_VMError(r.error)
               THEN /\ frames' = WithTop(AfterDispatch(env2, r.error))
                    /\ outcome' = outcome
                    /\ finished' = {CallRecord(msg, r.error, TRUE, NoEnv,
                                               storage, r.storage)}
               ELSE /\ frames' = <<>>
                    /\ outcome' = r.error
                    /\ finished' = Unwound(r.error, r.storage)
                            \cup {CallRecord(msg, r.error, TRUE, NoEnv,
                                             storage, r.storage)}
    /\ lastExit' = NoExit
    /\ UNCHANGED <<message, stackVars, codeVars, stateVars>>

\* execute_vm leaves the with block and returns the frame.
ExecuteVmReturn ==
    /\ Running
    /\ Top.at = "exit"
    /\ storage' = scope_exit(storage, Top, "none")
    /\ frames' = WithTop([Top EXCEPT !.at = "returned"])
    /\ lastExit' = [depth |-> Top.message.depth, n |-> Len(frames),
                    error |-> Top.error, items |-> Top.accounts_to_delete,
                    before |-> storage, after |-> storage']
    /\ finished' = {}
    /\ lastDispatch' = NoDispatch
    /\ UNCHANGED <<message, outcome, stackVars, codeVars, stateVars>>

\* apply_message returns the frame: to the frame that applied the message
\* (ExecutionEnvironment.apply_message appends it, and the loop goes on), or
\* to the caller of the top-level call.
ApplyMessageReturn ==
    /\ Running
    /\ Top.at = "returned"
    /\ storage' = apply_message_exit(storage, Top)
    /\ finished' = {CallRecord(Top.message, Top.error, FALSE, Top,
                               Top.snapshot, storage')}
    /\ IF Len(frames) = 1
       THEN /\ frames' = <<>>
            /\ outcome' = "returned"
       ELSE LET parent == frames[Len(frames) - 1]
                appended == [parent EXCEPT !.sub_environments =
                                               Append(@, SubEnvironment(Top)),
                                           !.at = "loop"]
            IN  /\ frames' = [SubSeq(frames, 1, Len(frames) - 1)
                                EXCEPT ![Len(frames) - 1] = AfterDispatch(appended, "none")]
                /\ outcome' = outcome
    /\ lastDispatch' = NoDispatch
    /\ lastExit' = NoExit
    /\ UNCHANGED <<message, stackVars, codeVars, stateVars>>

Init ==
    /\ storage \in [balance : Balances0, code : Codes0,
                    slots : {[a \in Accounts |-> 0]}]
    /\ message \in {Message(gas, 1, sender, account, sender, value, <<>>, depth) :
                        gas \in StartGas, sender \in Accounts, account \in Accounts,
                        value \in StartValues, depth \in StartDepths}
    /\ frames = <<>>
    /\ outcome = "start"
    /\ finished = {}
    /\ lastDispatch = NoDispatch
    /\ lastExit = NoExit
    /\ StackIdle
    /\ CodeIdle
    /\ StateIdle

Next ==
    \/ ApplyMessage
    \/ OpNop
    \/ OpPush
    \/ OpPop
    \/ OpSStore
    \/ OpConsumeGas
    \/ OpExtendMemory
    \/ OpRegister
    \/ OpRaise
    \/ OpCall
    \/ ExecuteVmReturn
    \/ ApplyMessageReturn

Spec == Init /\ [][Next]_vars

(***************************************************************************)
(* SpecLoop: the interpreter loop with jumps. The opcode logic may also    *)
(* assign pc, so that code runs backwards; a call from the top-level frame *)
(* meets the depth limit. The interpreter is one synchronous thread: it    *)
(* takes its next step whenever it has one.                                *)
(***************************************************************************)
\* The gas of the runs followed to their end.
LoopGas == {3}

InitLoop ==
    /\ storage \in [balance : {[a \in Accounts |-> 1]},
                    code : {[a \in Accounts |->
                                IF a = "A" THEN <<OP, OP>> ELSE <<SUICIDE>>]},
                    slots : {[a \in Accounts |-> 0]}]
    /\ message \in {Message(gas, 1, "A", account, "A", 0, <<>>, DepthLimit - 1) :
                        gas \in LoopGas, account \in Accounts}
    /\ frames = <<>>
    /\ outcome = "start"
    /\ finished = {}
    /\ lastDispatch = NoDispatch
    /\ lastExit = NoExit
    /\ StackIdle
    /\ CodeIdle
    /\ StateIdle

NextLoop == Next \/ OpJump

SpecLoop == InitLoop /\ [][NextLoop]_vars /\ WF_vars(NextLoop)

(***************************************************************************)
(* SpecStack: one Stack, driven by its four operations.                    *)
(***************************************************************************)
StackCall(op, r, isPush, isPop) ==
    /\ stackOp.n < MaxStackOps
    /\ values' = r.values
    /\ pushes' = IF isPush /\ r.error = "none" THEN pushes + 1 ELSE pushes
    /\ pops' = IF isPop /\ r.error = "none" THEN pops + 1 ELSE pops
    /\ stackOp' = [op |-> op, error |-> r.error, before |-> values,
                   n |-> stackOp.n + 1]
    /\ UNCHANGED <<codeVars, vmVars, stateVars>>

StackPush == \E v \in PushedValues : StackCall("push", push(values, v), TRUE, FALSE)
StackPop == StackCall("pop", pop(values), FALSE, TRUE)
StackSwap == \E p \in Positions : StackCall("swap", swap(values, p), FALSE, FALSE)
StackDup == \E p \in Positions : StackCall("dup", dup(values, p), TRUE, FALSE)

InitStack ==
    /\ values \in {<<>>, NearFullStack}
    /\ pushes = Len(values)
    /\ pops = 0
    /\ stackOp = NoStackOp
    /\ CodeIdle
    /\ VMIdle
    /\ StateIdle

NextStack == StackPush \/ StackPop \/ StackSwap \/ StackDup

SpecStack == InitStack /\ [][NextStack]_vars

(***************************************************************************)
(* SpecCode: one CodeStream; the driver fetches and asks the oracle.       *)
(***************************************************************************)
CodeBytes == {STOP, JUMPDEST, PUSH1, PUSH2, PUSH32}
\* A PUSH32, its 32 immediate bytes, and two instructions after them.
LongCode == [i \in 1..(PushWindow + 3) |-> IF i = 1 THEN PUSH32 ELSE JUMPDEST]
\* The same with a PUSH1 as the last immediate byte.
LongCodePush == [LongCode EXCEPT ![PushWindow + 1] = PUSH1]
Codes ==
    UNION {[1..n -> CodeBytes] : n \in 0..MaxCodeLen} \cup {LongCode, LongCodePush}

\* next(): read(1); STOP when nothing is left.
CodeNext ==
    LET r == stream_next(stream)
    IN  /\ stream.pos < Len(stream.bytes) + 1
        /\ stream' = r.stream
        /\ codeOp' = [op |-> "next", position |-> stream.pos,
                      result |-> r.opcode, pc |-> stream.pos]
        /\ UNCHANGED <<stackVars, vmVars, stateVars>>

\* is_valid_opcode(position); the scoped seek puts pc back at its anchor.
CodeIsValidOpcode ==
    \E position \in 0..(Len(stream.bytes) + 1) :
        /\ stream' = seek_scope(stream, Max(0, position - PushWindow),
                                 Min(position, PushWindow)).stream
        /\ codeOp' = [op |-> "is_valid_opcode", position |-> position,
                      result |-> is_valid_opcode(stream, position),
                      pc |-> stream.pos]
        /\ UNCHANGED <<stackVars, vmVars, stateVars>>

InitCode ==
    /\ stream \in {CodeStream(c) : c \in Codes}
    /\ codeOp = NoCodeOp
    /\ StackIdle
    /\ VMIdle
    /\ StateIdle

NextCode == CodeNext \/ CodeIsValidOpcode

SpecCode == InitCode /\ [][NextCode]_vars

(***************************************************************************)
(* SpecStream: one CodeStream driven by all its operations: the fetch,     *)
(* peek, the pc setter, the scoped seek and the oracle.                    *)
(***************************************************************************)
StreamCodes == {<<>>, <<PUSH1, JUMPDEST>>, <<PUSH2, STOP, JUMPDEST, STOP>>, LongCode}
\* Values assigned to pc: negative, inside the code, and past its end.
PcValues == {-1, 0, 1, 3, 99}
ReadSizes == {0, 1, 2}

CodePeek ==
    LET r == peek(stream)
    IN  /\ stream' = r.stream
        /\ codeOp' = [op |-> "peek", position |-> stream.pos,
                      result |-> r.opcode, pc |-> stream.pos]
        /\ UNCHANGED <<stackVars, vmVars, stateVars>>

CodeSetPc ==
    \E value \in PcValues :
        LET r == assign_pc(stream, value)
        IN  /\ stream' = r.stream
            /\ codeOp' = [op |-> "set_pc", position |-> value,
                          result |-> r.error, pc |-> stream.pos]
            /\ UNCHANGED <<stackVars, vmVars, stateVars>>

\* with code.seek(pc): code.read(size)
CodeSeek ==
    \E value \in PcValues, size \in ReadSizes :
        LET r == seek_scope(stream, value, size)
        IN  /\ stream' = r.stream
            /\ codeOp' = [op |-> "seek", position |-> value,
                          result |-> r.error, pc |-> stream.pos,
                          inside |-> r.inside.pos, value |-> r.value]
            /\ UNCHANGED <<stackVars, vmVars, stateVars>>

InitStream ==
    /\ stream \in {CodeStream(c) : c \in StreamCodes}
    /\ codeOp = NoCodeOp
    /\ StackIdle
    /\ VMIdle
    /\ StateIdle

NextStream == CodeNext \/ CodePeek \/ CodeSetPc \/ CodeSeek \/ CodeIsValidOpcode

SpecStream == InitStream /\ [][NextStream]_vars

(***************************************************************************)
(* SpecMemory and SpecGas: one State, driven through its Memory, its       *)
(* GasMeter and State.extend_memory.                                       *)
(***************************************************************************)
MaxMemOps == 3
MaxGasOps == 4
\* start_gas of the State: short of the cost of one word (3), and the cost
\* of two words (6).
MeterStartGas == {2, 6}
MemStarts == {0, 40}
MemSizes == {0, 1, 32}
\* Values written: one byte, and two bytes (too long for size 1).
WriteValues == {<<1>>, <<1, 1>>}
WriteStarts == {0, 31, 64}
\* Amounts of gas; -1 is no uint256.
GasAmounts == {-1, 0, 1, 7}

\* One call on the State: its result st, its error, and its arguments.
StateCall(op, st, err, start, size, amount, bound) ==
    /\ stateOp.n < bound
    /\ state' = st
    /\ stateOp' =
        [op |-> op, error |-> err, before |-> state, start |-> start,
         size |-> size, amount |-> amount, n |-> stateOp.n + 1,
         crossings |-> IF ~is_out_of_gas(state.gas_meter) /\ is_out_of_gas(st.gas_meter)
                       THEN stateOp.crossings + 1 ELSE stateOp.crossings,
         consumed |-> IF op = "consume_gas" /\ err = "none"
                      THEN stateOp.consumed + amount ELSE stateOp.consumed,
         returned |-> IF op = "return_gas" /\ err = "none"
                      THEN stateOp.returned + amount ELSE stateOp.returned,
         refunded |-> IF op = "refund_gas" /\ err = "none"
                      THEN stateOp.refunded + amount ELSE stateOp.refunded]
    /\ UNCHANGED <<stackVars, codeVars, vmVars>>

MemoryExtend ==
    \E start \in MemStarts, size \in MemSizes :
        StateCall("extend",
                  [state EXCEPT !.memory = memory_extend(state.memory, start, size)],
                  "none", start, size, 0, MaxMemOps)

MemoryWrite ==
    \E start \in WriteStarts, value \in WriteValues :
        LET r == memory_write(state.memory, start, 1, value)
        IN  StateCall("write", [state EXCEPT !.memory = r.bytes], r.error,
                      start, 1, 0, MaxMemOps)

StateExtendMemory ==
    \E start \in MemStarts, size \in MemSizes :
        LET r == extend_memory(state.memory, state.gas_meter, start, size)
        IN  StateCall("extend_memory",
                      [memory |-> r.memory, gas_meter |-> r.meter], r.error,
                      start, size, 0, MaxMemOps)

MeterCall(op, r, amount, bound) ==
    StateCall(op, [state EXCEPT !.gas_meter = r.meter], r.error, 0, 0, amount, bound)

\* The logic of an opcode charging the State's meter directly.
StateConsumeGas ==
    \E amount \in GasAmounts :
        MeterCall("consume_gas", consume_gas(state.gas_meter, amount), amount, MaxMemOps)

InitMemory ==
    /\ state \in {State(g) : g \in MeterStartGas}
    /\ stateOp = NoStateOp
    /\ StackIdle
    /\ CodeIdle
    /\ VMIdle

NextMemory == MemoryExtend \/ MemoryWrite \/ StateExtendMemory \/ StateConsumeGas

SpecMemory == InitMemory /\ [][NextMemory]_vars

GasConsume ==
    \E amount \in GasAmounts :
        MeterCall("consume_gas", consume_gas(state.gas_meter, amount), amount, MaxGasOps)
GasReturn ==
    \E amount \in GasAmounts :
        MeterCall("return_gas", return_gas(state.gas_meter, amount), amount, MaxGasOps)
GasRefund ==
    \E amount \in GasAmounts :
        MeterCall("refund_gas", refund_gas(state.gas_meter, amount), amount, MaxGasOps)

NextGas == GasConsume \/ GasReturn \/ GasRefund

InitGas == InitMemory

SpecGas == InitGas /\ [][NextGas]_vars

(***************************************************************************)
(* Claims                                                                  *)
(***************************************************************************)
TotalBalance(st) == st.balance["A"] + st.balance["B"]

\* C1: every apply_message call that fails (frame.error set, StackDepthLimit,
\* or insufficient funds, which surfaces as NameError) leaves the storage as
\* it was immediately before that call.
C1_FailedCallRestoresStorage ==
    \A c \in finished :
        (c.error \in VMErrors \cup {"NameError"}) => (c.after = c.before)

\* C1, the part the code keeps: a call that ends with a VMError, raised or
\* recorded in frame.error, leaves the storage as it was before the call.
C1_VMErrorRestoresStorage ==
    \A c \in finished : (c.error \in VMErrors) => (c.after = c.before)

\* C2: a valid opcode dispatched with gas_remaining below its base cost
\* fails OutOfGas without running its logic: frame.error is set, and the
\* stack, the memory and the storage are as before the dispatch.
C2_OutOfGasBeforeLogic ==
    (lastDispatch.n > 0 /\ lastDispatch.valid
        /\ lastDispatch.before.gas < lastDispatch.gas_cost)
    => /\ lastDispatch.error = "OutOfGas"
       /\ lastDispatch.kind = "none"
       /\ Len(frames) = lastDispatch.n
       /\ Top.error = "OutOfGas"
       /\ Top.stack = lastDispatch.before.stack
       /\ Top.memory = lastDispatch.before.memory
       /\ storage = lastDispatch.before.storage
       /\ lastDispatch.after.stack = lastDispatch.before.stack
       /\ lastDispatch.after.memory = lastDispatch.before.memory
       /\ lastDispatch.after.storage = lastDispatch.before.storage

\* C2 witness: a dispatch found the meter at 0, short of the base cost 1,
\* with memory already extended, and failed OutOfGas.
C2_Witness ==
    /\ lastDispatch.n > 0
    /\ lastDispatch.valid
    /\ lastDispatch.before.gas >= 0
    /\ lastDispatch.before.gas < lastDispatch.gas_cost
    /\ lastDispatch.before.memory # <<>>
    /\ lastDispatch.error = "OutOfGas"

\* C3 as claimed: every dispatch of a valid opcode lowers gas_remaining by
\* at least the opcode's base cost, whatever the state of the meter.
C3_DispatchChargesBaseCost ==
    (lastDispatch.n > 0 /\ lastDispatch.valid)
    => lastDispatch.after.gas <= lastDispatch.before.gas - lastDispatch.gas_cost

\* C3 amended: a dispatch of a valid opcode that finds the meter not out of
\* gas lowers gas_remaining by at least the base cost; one that finds it out
\* of gas fails OutOfGas and leaves gas_remaining as it was.
C3_DispatchChargesBaseCostUnlessOut ==
    (lastDispatch.n > 0 /\ lastDispatch.valid)
    => IF lastDispatch.before.gas >= 0
       THEN lastDispatch.after.gas <= lastDispatch.before.gas - lastDispatch.gas_cost
       ELSE /\ lastDispatch.after.gas = lastDispatch.before.gas
            /\ lastDispatch.error = "OutOfGas"

\* C3 witness: a dispatch charged the base cost 1 and its logic a further
\* fee, so that gas_remaining fell by more than the base cost.
C3_Witness ==
    /\ lastDispatch.n > 0
    /\ lastDispatch.valid
    /\ lastDispatch.gas_cost > 0
    /\ lastDispatch.before.gas >= 0
    /\ lastDispatch.kind = "consume_gas"
    /\ lastDispatch.after.gas < lastDispatch.before.gas - lastDispatch.gas_cost

\* C4: a frame that apply_message returns with a VMError has consumed all
\* the gas of its message: gas_used >= message.gas, gas_remaining <= 0.
C4_FailedFrameConsumesAllGas ==
    \A c \in finished :
        (~c.raised /\ c.error \in VMErrors)
        => /\ gas_used(c.env.gas_meter) >= c.env.message.gas
           /\ gas_remaining(c.env.gas_meter) <= 0

\* C5: after a frame at depth 1023 has applied a child message (depth 1024)
\* the frame has no error and its sub_environments holds one entry, whose
\* error is StackDepthLimit.
C5_DepthLimitChildRecorded ==
    (lastDispatch.n > 0 /\ lastDispatch.kind = "apply_message"
        /\ lastDispatch.depth = DepthLimit - 1)
    => /\ Len(frames) = lastDispatch.n
       /\ Top.error = "none"
       /\ Len(Top.sub_environments) = 1
       /\ Top.sub_environments[1].error = "StackDepthLimit"

\* C6: no frame exists and no opcode is dispatched at a depth >= 1024; a
\* child is one deeper than its parent; a message at depth >= 1024 is
\* refused with StackDepthLimit, raised before a frame is built, with the
\* storage (the balances too) as before the call.
C6_NoDispatchAtDepthLimit ==
    /\ \A i \in 1..Len(frames) : frames[i].message.depth < DepthLimit
    /\ \A i \in 2..Len(frames) :
            frames[i].message.depth = frames[i - 1].message.depth + 1
    /\ (lastDispatch.n > 0) => (lastDispatch.depth < DepthLimit)
    /\ \A c \in finished :
            (c.depth >= DepthLimit)
            => /\ c.raised
               /\ c.error = "StackDepthLimit"
               /\ c.env = NoEnv
               /\ c.after = c.before

\* C6 witness: a frame at depth 1023 applied a child message that carried
\* value from an account that could pay it, and the child was refused.
C6_Witness ==
    /\ frames # <<>>
    /\ Top.message.depth = DepthLimit - 1
    /\ \E c \in finished :
            /\ c.depth = DepthLimit
            /\ c.error = "StackDepthLimit"
            /\ c.value > 0
            /\ c.before.balance[c.sender] >= c.value

\* C7: when execute_vm returns a frame whose error is set, no entry of the
\* frame's accounts_to_delete has been applied: the scope guard left the
\* storage as it found it.
C7_FailedFrameDeletionsAbandoned ==
    (lastExit.n > 0 /\ lastExit.error # "none")
    => lastExit.after = lastExit.before

\* C8: when a frame exits without error, each (account, beneficiary) of its
\* accounts_to_delete has the account's code and storage deleted and the
\* account's balance moved to the beneficiary (kept, when the beneficiary is
\* the account itself), and the sum of the balances is unchanged.
C8_DeletionMovesBalance ==
    (lastExit.n > 0 /\ lastExit.error = "none")
    => /\ TotalBalance(lastExit.after) = TotalBalance(lastExit.before)
       /\ \A i \in 1..Len(lastExit.items) :
            LET account == lastExit.items[i][1]
                beneficiary == lastExit.items[i][2]
            IN  /\ lastExit.after.code[account] = <<>>
                /\ lastExit.after.slots[account] = 0
                /\ (account # beneficiary)
                    => /\ lastExit.after.balance[account] = 0
                       /\ lastExit.after.balance[beneficiary] =
                            lastExit.before.balance[beneficiary]
                                + lastExit.before.balance[account]
                /\ (account = beneficiary)
                    => lastExit.after.balance[account] =
                            lastExit.before.balance[account]

\* C8 witness: a frame that had written its storage slot and named itself
\* the beneficiary of its own deletion, holding a balance, exited cleanly.
C8_Witness ==
    /\ lastExit.n > 0
    /\ lastExit.error = "none"
    /\ Len(lastExit.items) = 1
    /\ lastExit.items[1][1] = lastExit.items[1][2]
    /\ lastExit.before.balance[lastExit.items[1][1]] > 0
    /\ lastExit.before.slots[lastExit.items[1][1]] = 1
    /\ lastExit.after.slots[lastExit.items[1][1]] = 0

\* The instruction boundaries a forward scan from position s finds.
RECURSIVE ForwardStarts(_, _)
ForwardStarts(bytes, s) ==
    IF s >= Len(bytes)
    THEN {}
    ELSE LET opcode == bytes[s + 1]
             size == IF opcode >= PUSH1 /\ opcode <= PUSH32
                     THEN 1 + opcode - PUSH1 ELSE 0
         IN  {s} \cup ForwardStarts(bytes, s + 1 + size)

\* C9: for every position inside the code, is_valid_opcode answers false
\* exactly when the position is not an instruction boundary of the forward
\* scan from 0, that is, when it is an immediate byte of a PUSH that is
\* itself an instruction.
C9_BackwardScanAgreesWithForward ==
    (codeOp.op = "is_valid_opcode" /\ codeOp.position < Len(stream.bytes))
        => (codeOp.result = (codeOp.position \in ForwardStarts(stream.bytes, 0)))

\* C9 witness: the oracle accepted the byte after a PUSH1 that is itself the
\* last immediate byte of a PUSH32, 33 bytes back and outside the scan.
C9_Witness ==
    /\ codeOp.op = "is_valid_opcode"
    /\ stream.bytes = LongCodePush
    /\ codeOp.position = PushWindow + 1
    /\ codeOp.result = TRUE

\* C10: the length of the stack is pushes - pops (dup counted as a push),
\* stays within 0..1024, the push onto 1024 elements fails FullStack, the
\* pop of the empty stack fails InsufficientStack, and a failed call leaves
\* the values as they were.
C10_StackLength ==
    /\ Len(values) = pushes - pops
    /\ Len(values) >= 0
    /\ Len(values) <= StackLimit
    /\ (stackOp.op = "push" /\ Len(stackOp.before) = StackLimit)
            => stackOp.error = "FullStack"
    /\ (stackOp.op = "pop" /\ stackOp.before = <<>>)
            => stackOp.error = "InsufficientStack"
    /\ (stackOp.error # "none") => (values = stackOp.before)

\* C10 witness: the 1025th push was refused with the stack full.
C10_Witness ==
    /\ stackOp.op = "push"
    /\ stackOp.error = "FullStack"
    /\ Len(values) = StackLimit
    /\ pushes = StackLimit


\* C14: every run of the interpreter ends: the top-level apply_message
\* returns or raises, whatever the code and the jumps it takes.
C14_LoopTerminates == <>(outcome \notin {"start", "running"})

\* C14 witness: a frame whose code is two bytes long was charged the base
\* cost of more than two opcodes, so it had jumped backwards, and then ran
\* out of gas and left the loop.
C14_Witness ==
    /\ frames # <<>>
    /\ Top.at = "exit"
    /\ Top.error = "OutOfGas"
    /\ Len(Top.gas_meter.deductions) > Len(Top.code.bytes)
    /\ \A i \in 1..Len(Top.gas_meter.deductions) : Top.gas_meter.deductions[i] = 1

\* C11: the length of the memory is a multiple of 32 and no call of
\* Memory.extend, Memory.write or State.extend_memory lowers it; a write
\* leaves it as it was.
C11_MemoryLength ==
    /\ Len(state.memory) % 32 = 0
    /\ Len(state.memory) >= Len(stateOp.before.memory)
    /\ (stateOp.op = "write") => (Len(state.memory) = Len(stateOp.before.memory))

\* C11 witness: a write changed a byte of a memory two words long.
C11_Witness ==
    /\ stateOp.op = "write"
    /\ stateOp.error = "none"
    /\ Len(state.memory) = 64
    /\ state.memory # stateOp.before.memory

\* C12: State.extend_memory with size > 0 charges the rise of the memory
\* cost before it touches the memory: a call that fails OutOfGas leaves the
\* memory as it was, the memory changes only on a call that returns, and
\* then the rise has been paid and the meter is not out of gas.
C12_ExtendMemoryChargesFirst ==
    (stateOp.op = "extend_memory" /\ stateOp.size > 0)
    => LET before == stateOp.before
           before_cost == memory_gas_cost(ceil32(Len(before.memory)))
           after_cost == memory_gas_cost(ceil32(stateOp.start + stateOp.size))
           fee == Max(0, after_cost - before_cost)
       IN  /\ stateOp.error \in {"none", "OutOfGas"}
           /\ (stateOp.error = "OutOfGas") => (state.memory = before.memory)
           /\ (state.memory # before.memory) => (stateOp.error = "none")
           /\ (stateOp.error = "none")
                => /\ gas_remaining(state.gas_meter)
                        = gas_remaining(before.gas_meter) - fee
                   /\ gas_remaining(state.gas_meter) >= 0
                   /\ Len(state.memory)
                        = Max(Len(before.memory), ceil32(stateOp.start + stateOp.size))
           /\ (~is_out_of_gas(before.gas_meter))
                => gas_remaining(state.gas_meter)
                        = gas_remaining(before.gas_meter) - fee

\* C12 witness: a memory that had grown before was asked to grow again, the
\* charge took the meter below zero, and the call failed OutOfGas.
C12_Witness ==
    /\ stateOp.op = "extend_memory"
    /\ stateOp.size > 0
    /\ stateOp.error = "OutOfGas"
    /\ stateOp.before.memory # <<>>
    /\ ~is_out_of_gas(stateOp.before.gas_meter)
    /\ is_out_of_gas(state.gas_meter)

\* C17: consume_gas of a uint256 amount on a meter that is not out of gas
\* records the deduction even when it takes gas_remaining below zero; on a
\* meter that is out of gas it fails OutOfGas and leaves the three ledgers
\* as they were; a meter that is out of gas stays out of gas, so
\* gas_remaining turns negative at most once.
C17_OutOfGasIsAbsorbing ==
    LET before == stateOp.before.gas_meter
    IN  /\ (stateOp.op = "consume_gas" /\ stateOp.amount >= 0 /\ ~is_out_of_gas(before))
            => /\ stateOp.error = "none"
               /\ state.gas_meter.deductions = Append(before.deductions, stateOp.amount)
        /\ (stateOp.op = "consume_gas" /\ is_out_of_gas(before))
            => /\ stateOp.error = "OutOfGas"
               /\ state.gas_meter = before
        /\ is_out_of_gas(before) => is_out_of_gas(state.gas_meter)
        /\ stateOp.crossings <= 1

\* C17 witness: a consume_gas failed OutOfGas on a meter that had turned
\* negative and had gas returned to it afterwards.
C17_Witness ==
    /\ stateOp.op = "consume_gas"
    /\ stateOp.amount >= 0
    /\ stateOp.error = "OutOfGas"
    /\ stateOp.crossings = 1
    /\ stateOp.before.gas_meter.returns # <<>>
    /\ stateOp.before.gas_meter.deductions # <<>>

\* C18: gas_remaining is start_gas less the amounts consumed and the
\* amounts returned, and never rises; return_gas(amount) lowers it by
\* amount; refund_gas changes gas_refunded alone.
C18_GasAccounting ==
    LET meter == state.gas_meter
        before == stateOp.before.gas_meter
    IN  /\ gas_used(meter) = stateOp.consumed + stateOp.returned
        /\ gas_remaining(meter) = meter.start_gas - (stateOp.consumed + stateOp.returned)
        /\ gas_refunded(meter) = stateOp.refunded
        /\ (stateOp.n > 0) => (gas_remaining(meter) <= gas_remaining(before))
        /\ (stateOp.op = "return_gas" /\ stateOp.error = "none")
            => gas_remaining(meter) = gas_remaining(before) - stateOp.amount
        /\ (stateOp.op = "refund_gas")
            => /\ gas_used(meter) = gas_used(before)
               /\ gas_remaining(meter) = gas_remaining(before)
               /\ (stateOp.error = "none")
                    => gas_refunded(meter) = gas_refunded(before) + stateOp.amount

\* C18 witness: a return_gas of a positive amount took a meter that still
\* had gas below zero.
C18_Witness ==
    /\ stateOp.op = "return_gas"
    /\ stateOp.error = "none"
    /\ stateOp.amount > 0
    /\ ~is_out_of_gas(stateOp.before.gas_meter)
    /\ is_out_of_gas(state.gas_meter)

\* C13: an opcode is dispatched only in a frame that is in its loop with no
\* error recorded; a dispatch that raises a VMError records it in
\* frame.error and ends the loop, a terminal opcode that raises nothing ends
\* the loop with frame.error unset, and a frame that has left its loop
\* fetches no further opcode and keeps its error.
C13_NoDispatchAfterEnd ==
    [][/\ (lastDispatch'.n > 0)
            => /\ Len(frames) >= lastDispatch'.n
               /\ frames[lastDispatch'.n].at = "loop"
               /\ frames[lastDispatch'.n].error = "none"
       /\ (lastDispatch'.n > 0 /\ lastDispatch'.error \in VMErrors)
            => /\ Len(frames') >= lastDispatch'.n
               /\ frames'[lastDispatch'.n].at = "exit"
               /\ frames'[lastDispatch'.n].error = lastDispatch'.error
       /\ (lastDispatch'.n > 0 /\ lastDispatch'.error = "none"
                /\ lastDispatch'.opcode \in BREAK_OPCODES)
            => /\ Len(frames') >= lastDispatch'.n
               /\ frames'[lastDispatch'.n].at = "exit"
               /\ frames'[lastDispatch'.n].error = "none"
       /\ \A i \in 1..Len(frames) :
            (frames[i].at \in {"exit", "returned"} /\ i <= Len(frames'))
            => /\ frames'[i].at \in {"exit", "returned"}
               /\ frames'[i].error = frames[i].error
               /\ frames'[i].code = frames[i].code
       ]_vars

\* C13 witness: a frame left its loop on an InsufficientStack error with a
\* byte of its code still unread.
C13_Witness ==
    /\ frames # <<>>
    /\ Top.at = "exit"
    /\ Top.error = "InsufficientStack"
    /\ Top.code.pos < Len(Top.code.bytes)

\* C15: an apply_message whose message carries value that the sender's
\* balance does not cover fails with an error of the VMError family, raised
\* before a frame is built, and leaves every balance as it was.
C15_InsufficientFundsIsVMError ==
    \A c \in finished :
        (c.value > 0 /\ c.depth < DepthLimit
            /\ c.before.balance[c.sender] < c.value)
        => /\ c.raised
           /\ c.env = NoEnv
           /\ c.error \in VMErrors
           /\ c.after.balance = c.before.balance

\* C16: a frame's accounts_to_delete holds at most one entry, keyed by the
\* frame's own account; a second register_account_for_deletion in the
\* frame fails ValueError, which is no VMError, and leaves the map with its
\* first beneficiary.
C16_OneDeletionPerFrame ==
    /\ \A i \in 1..Len(frames) :
            /\ Len(frames[i].accounts_to_delete) <= 1
            /\ \A j \in 1..Len(frames[i].accounts_to_delete) :
                    frames[i].accounts_to_delete[j][1] = frames[i].message.account
    /\ Len(lastExit.items) <= 1
    /\ (lastDispatch.n > 0
            /\ lastDispatch.kind = "register_account_for_deletion")
        => /\ Len(lastDispatch.after.deletions) = 1
           /\ (lastDispatch.before.deletions # <<>>)
                => /\ lastDispatch.error = "ValueError"
                   /\ ~is_VMError(lastDispatch.error)
                   /\ lastDispatch.after.deletions = lastDispatch.before.deletions
           /\ (lastDispatch.before.deletions = <<>>)
                => lastDispatch.error = "none"

\* C16 witness: a frame that had registered its account with beneficiary B
\* registered again and got ValueError.
C16_Witness ==
    /\ lastDispatch.n > 0
    /\ lastDispatch.kind = "register_account_for_deletion"
    /\ lastDispatch.error = "ValueError"
    /\ lastDispatch.before.deletions = <<(<<"A", "B">>)>>

\* C20: the value transfer of apply_message keeps the sum of the balances:
\* in a frame that has just been set up for a message with value > 0, the
\* sender has lost value and the callee has gained it (nothing changes when
\* they are the same account).
C20_TransferConservesBalances ==
    (/\ frames # <<>>
     /\ Top.at = "loop"
     /\ Top.code.pos = 0
     /\ Top.gas_meter.deductions = <<>>
     /\ Top.message.value > 0)
    => LET msg == Top.message
           b0 == Top.snapshot.balance
           b1 == storage.balance
       IN  /\ TotalBalance(storage) = TotalBalance(Top.snapshot)
           /\ (msg.sender # msg.account)
                => /\ b1[msg.sender] = b0[msg.sender] - msg.value
                   /\ b1[msg.account] = b0[msg.account] + msg.value
           /\ (msg.sender = msg.account) => (b1 = b0)

\* C19: pc stays within 0..length; a fetch at pc = length yields STOP and
\* leaves pc at length, a fetch before it yields the byte at pc and moves
\* pc by one; peek and is_valid_opcode leave pc where it was, and so does
\* the scoped seek once its block is left; the pc setter clamps to length.
C19_PcWithinCode ==
    /\ stream.pos >= 0
    /\ stream.pos <= Len(stream.bytes)
    /\ (codeOp.op = "next" /\ codeOp.pc = Len(stream.bytes))
        => (codeOp.result = STOP /\ stream.pos = Len(stream.bytes))
    /\ (codeOp.op = "next" /\ codeOp.pc < Len(stream.bytes))
        => (codeOp.result = stream.bytes[codeOp.pc + 1]
                /\ stream.pos = codeOp.pc + 1)
    /\ (codeOp.op = "peek")
        => /\ stream.pos = codeOp.pc
           /\ codeOp.result = IF codeOp.pc < Len(stream.bytes)
                               THEN stream.bytes[codeOp.pc + 1] ELSE STOP
    /\ (codeOp.op = "is_valid_opcode") => (stream.pos = codeOp.pc)
    /\ (codeOp.op = "seek") => (stream.pos = codeOp.pc)
    /\ (codeOp.op = "set_pc")
        => stream.pos = IF codeOp.position < 0 THEN codeOp.pc
                        ELSE Min(codeOp.position, Len(stream.bytes))

\* C19 witness: a scoped seek entered from pc = length moved pc back into
\* the code, read two bytes there, and left pc at length again.
C19_Witness ==
    /\ codeOp.op = "seek"
    /\ codeOp.pc = Len(stream.bytes)
    /\ codeOp.pc > 0
    /\ Len(codeOp.value) = 2
    /\ codeOp.inside # codeOp.pc
    /\ stream.pos = codeOp.pc

====
